---- MODULE Spec2Model ----
(***************************************************************************)
(* Model of the lox-rs lexical front end (src/src/main.rs): the driver     *)
(* (main, Lox::run_prompt, Lox::run_file, Lox::run) and the Scanner        *)
(* (scan_tokens, is_at_end, scan_token, advance).                          *)
(*                                                                         *)
(* A source text is a sequence of characters.  Rust's String::len counts   *)
(* bytes while chars().nth counts characters, so every character carries   *)
(* its UTF-8 width.                                                        *)
(***************************************************************************)
EXTENDS Integers, Sequences, FiniteSets, TLC

\* ------------------------------------------------------------------ bounds
MaxLen == 3
MaxArgs == 3
MaxDiag == 2
MaxDiagSrc == 1
MaxLineNo == 2

\* -------------------------------------------------------------- characters
\* "e2" stands for a two-byte character such as U+00E9; "o" and "r" are the
\* letters of the keyword "or".
Chars == {"(", "@", "\n", "\"", "!", "=", "e2", "o", "r"}

Utf8Len(c) == IF c = "e2" THEN 2 ELSE 1

Sources == UNION {[1..n -> Chars] : n \in 0..MaxLen}

RECURSIVE ByteLen(_)
\* String::len : the length of the text in bytes.
ByteLen(s) == IF s = <<>> THEN 0 ELSE Utf8Len(Head(s)) + ByteLen(Tail(s))

None == "None"

\* s.chars().nth(k) : the k-th character (0-based), or None past the end.
CharsNth(s, k) == IF k < Len(s) THEN s[k + 1] ELSE None

\* --------------------------------------------------------------- the state
VARIABLES
    argc,        \* number of command-line arguments after the program name
    file,        \* content of the script file named by the argument
    stdin,       \* characters not yet read from standard input
    pc,          \* position of the driver
    lox,         \* the Lox value: [had_error]
    input,       \* the source text handed to run
    scanner,     \* the Scanner value: [source, tokens, start, current, line]
    scanPc,      \* position inside scan_tokens
    lastChar,    \* the character returned by the latest advance
    fail,        \* why the process panicked, "none" while it has not
    status,      \* "running", "exited" or "panicked"
    exitCode,    \* status passed to process::exit, 0 on return from main
    printed,     \* tokens printed by run so far
    diag,        \* diagnostic lines printed by report so far
    scannersMade \* number of Scanner::new calls so far

vars == <<argc, file, stdin, pc, lox, input, scanner, scanPc, lastChar, fail,
          status, exitCode, printed, diag, scannersMade>>

\* ------------------------------------------------------------------- Token
Token(kind, lexeme, line) == [kind |-> kind, lexeme |-> lexeme, line |-> line]

\* ----------------------------------------------------------------- Scanner
ScannerDefault ==
    [source |-> <<>>, tokens |-> <<>>, start |-> 0, current |-> 0, line |-> 1]

\* Variant: the source is not stored, every field takes its default.
ScannerNewEmpty(s) == ScannerDefault

ScannerNew(s) == [ScannerDefault EXCEPT !.source = s]

is_at_end(sc) == sc.current >= ByteLen(sc.source)

\* Variant: current moves by the byte width of the character it stood on.
advanceBytes(sc) ==
    [scanner |-> [sc EXCEPT !.current =
                     sc.current + Utf8Len(CharsNth(sc.source, sc.current))],
     ch      |-> CharsNth(sc.source, sc.current + 1)]

\* advance: current is incremented first, then the character is looked up.
advance(sc) ==
    [scanner |-> [sc EXCEPT !.current = sc.current + 1],
     ch      |-> CharsNth(sc.source, sc.current + 1)]

\* The text between start and current.
Lexeme(sc) ==
    [i \in 1..(sc.current - sc.start) |-> sc.source[sc.start + i]]

add_token(sc, kind) ==
    [sc EXCEPT !.tokens = Append(@, Token(kind, Lexeme(sc), sc.line))]

\* The arms of the match in scan_token: the kind each character maps to,
\* None for a character no arm covers.
MatchArm(c) == IF c = "(" THEN "LParen" ELSE None

\* -------------------------------------------------------------------- Lox
\* Variant: the flag starts set.
LoxDefaultSet == [had_error |-> TRUE]

LoxDefault == [had_error |-> FALSE]

\* The line "[line N] Error<where>: <message>" printed by report.
DiagLine(line, where, message) ==
    [line |-> line, where |-> where, message |-> message]

\* Variant: the diagnostic is printed but the flag is left as it was.
reportNoFlag(l, line, where, message) ==
    [lox |-> l, out |-> <<DiagLine(line, where, message)>>]

\* Lox::report : print the diagnostic and set the flag.
report(l, line, where, message) ==
    [lox |-> [l EXCEPT !.had_error = TRUE],
     out |-> <<DiagLine(line, where, message)>>]

\* Lox::error : report with an empty location qualifier.
error(l, line, message) == report(l, line, "", message)

RECURSIVE ReadLineStripped(_)
\* Variant: the line is returned without its newline.
ReadLineStripped(s) ==
    IF s = <<>> THEN <<>>
    ELSE IF Head(s) = "\n" THEN <<>>
    ELSE <<Head(s)>> \o ReadLineStripped(Tail(s))

\* read_line : the characters up to and including the first newline.
RECURSIVE ReadLine(_)
ReadLine(s) ==
    IF s = <<>> THEN <<>>
    ELSE IF Head(s) = "\n" THEN <<"\n">>
    ELSE <<Head(s)>> \o ReadLine(Tail(s))

Drop(s, n) == [i \in 1..(Len(s) - n) |-> s[i + n]]

\* Variant: the argument count is compared with 2, as if the program name
\* had not been skipped.
Cmp2(n) == IF n < 2 THEN "Less" ELSE IF n = 2 THEN "Equal" ELSE "Greater"

\* main's comparison of args.len() with 1.
Cmp1(n) == IF n < 1 THEN "Less" ELSE IF n = 1 THEN "Equal" ELSE "Greater"

ExitUsage == 64
ExitDataErr == 65

\* -------------------------------------------------------------------- Init
Init ==
    /\ argc \in 0..MaxArgs
    /\ \E s \in Sources : file = s /\ stdin = s
    /\ pc = "main"
    /\ lox = LoxDefault
    /\ input = <<>>
    /\ scanner = ScannerDefault
    /\ scanPc = "idle"
    /\ lastChar = None
    /\ fail = "none"
    /\ status = "running"
    /\ exitCode = 0
    /\ printed = <<>>
    /\ diag = <<>>
    /\ scannersMade = 0

Panic(why) ==
    /\ status' = "panicked"
    /\ fail' = why

\* ----------------------------------------------------------------- actions
\* main: dispatch on the number of arguments.
Main ==
    /\ status = "running" /\ pc = "main"
    /\ CASE Cmp1(argc) = "Less"    -> pc' = "run_prompt" /\ UNCHANGED <<status, exitCode>>
         [] Cmp1(argc) = "Equal"   -> pc' = "run_file" /\ UNCHANGED <<status, exitCode>>
         [] Cmp1(argc) = "Greater" -> pc' = "main" /\ status' = "exited" /\ exitCode' = ExitUsage
    /\ UNCHANGED <<argc, file, stdin, lox, input, scanner, scanPc, lastChar,
                   fail, printed, scannersMade>>
    /\ UNCHANGED diag

\* run_prompt: one pass of the loop up to the break or the call of run.
RunPrompt ==
    /\ status = "running" /\ pc = "run_prompt"
    /\ LET line == ReadLine(stdin) IN
       /\ input' = input \o line
       /\ stdin' = Drop(stdin, Len(line))
       /\ IF input' = <<>>
          THEN /\ status' = "exited" /\ exitCode' = 0 /\ pc' = "run_prompt"
          ELSE /\ pc' = "run" /\ UNCHANGED <<status, exitCode>>
    /\ UNCHANGED <<argc, file, lox, scanner, scanPc, lastChar, fail, printed,
                   scannersMade>>
    /\ UNCHANGED diag

\* run_file: read the whole file and call run.
RunFile ==
    /\ status = "running" /\ pc = "run_file"
    /\ \E readable \in BOOLEAN :
         IF readable
         THEN /\ input' = file /\ pc' = "run"
              /\ UNCHANGED <<status, fail>>
         ELSE /\ Panic("read_to_string") /\ UNCHANGED <<input, pc>>
    /\ UNCHANGED <<argc, file, stdin, lox, scanner, scanPc, lastChar,
                   exitCode, printed, scannersMade>>
    /\ UNCHANGED diag

\* run: build the scanner for the source.
Run ==
    /\ status = "running" /\ pc = "run" /\ scanPc = "idle"
    /\ scanner' = ScannerNew(input)
    /\ scannersMade' = scannersMade + 1
    /\ scanPc' = "scan_tokens"
    /\ UNCHANGED <<argc, file, stdin, pc, lox, input, lastChar, fail, status,
                   exitCode, printed>>
    /\ UNCHANGED diag

\* scan_tokens: the loop test succeeded, start a lexeme.
ScanTokensLoop ==
    /\ status = "running" /\ scanPc = "scan_tokens"
    /\ ~is_at_end(scanner)
    /\ scanner' = [scanner EXCEPT !.start = scanner.current]
    /\ scanPc' = "scan_token"
    /\ UNCHANGED <<argc, file, stdin, pc, lox, input, lastChar, fail, status,
                   exitCode, printed, scannersMade>>
    /\ UNCHANGED diag

\* scan_tokens: the loop is over, append Eof and return the tokens.
ScanTokensEof ==
    /\ status = "running" /\ scanPc = "scan_tokens"
    /\ is_at_end(scanner)
    /\ scanner' = [scanner EXCEPT
                     !.tokens = Append(@, Token("Eof", <<>>, scanner.line))]
    /\ scanPc' = "returned"
    /\ UNCHANGED <<argc, file, stdin, pc, lox, input, lastChar, fail, status,
                   exitCode, printed, scannersMade>>
    /\ UNCHANGED diag

\* scan_token: advance, then dispatch on the character.
ScanToken ==
    /\ status = "running" /\ scanPc = "scan_token"
    /\ LET a == advance(scanner) IN
       /\ lastChar' = a.ch
       /\ IF a.ch = None
          THEN /\ scanner' = a.scanner
               /\ Panic("unwrap") /\ UNCHANGED scanPc
          ELSE IF MatchArm(a.ch) = None
          THEN /\ scanner' = a.scanner
               /\ Panic("no_arm") /\ UNCHANGED scanPc
          ELSE /\ scanner' = add_token(a.scanner, MatchArm(a.ch))
               /\ scanPc' = "scan_tokens"
               /\ UNCHANGED <<status, fail>>
    /\ UNCHANGED <<argc, file, stdin, pc, lox, input, exitCode, printed,
                   scannersMade>>
    /\ UNCHANGED diag

\* run: print the tokens; then the caller's code after run.
RunReturn ==
    /\ status = "running" /\ pc = "run" /\ scanPc = "returned"
    /\ printed' = printed \o scanner.tokens
    /\ scanPc' = "idle"
    /\ IF Cmp1(argc) = "Equal"
       THEN /\ status' = "exited"
            /\ exitCode' = IF lox.had_error THEN ExitDataErr ELSE 0
            /\ UNCHANGED <<lox, input, pc>>
       ELSE /\ lox' = [lox EXCEPT !.had_error = FALSE]
            /\ input' = <<>>
            /\ pc' = "run_prompt"
            /\ UNCHANGED <<status, exitCode>>
    /\ UNCHANGED <<argc, file, stdin, scanner, lastChar, fail, scannersMade>>
    /\ UNCHANGED diag

Next ==
    \/ Main
    \/ RunPrompt
    \/ RunFile
    \/ Run
    \/ ScanTokensLoop
    \/ ScanTokensEof
    \/ ScanToken
    \/ RunReturn

Spec == Init /\ [][Next]_vars

\* ------------------------------------------------- diagnostics in a pass
\* No code of the scanner calls error or report yet.  The specification
\* below adds their calls, with arbitrary arguments, at any point of a scan
\* pass, to examine the life of had_error across the driver's steps.
Messages == {"Unexpected character.", "Unterminated string."}
Wheres == {"", " at end"}
LineNos == 1..MaxLineNo

InPass == status = "running" /\ pc = "run"
              /\ scanPc \in {"scan_tokens", "scan_token", "returned"}

CallError ==
    /\ InPass /\ Len(diag) < MaxDiag
    /\ \E line \in LineNos, message \in Messages :
         LET r == error(lox, line, message) IN
         /\ lox' = r.lox
         /\ diag' = diag \o r.out
    /\ UNCHANGED <<argc, file, stdin, pc, input, scanner, scanPc, lastChar,
                   fail, status, exitCode, printed, scannersMade>>

CallReport ==
    /\ InPass /\ Len(diag) < MaxDiag
    /\ \E line \in LineNos, where \in Wheres, message \in Messages :
         LET r == report(lox, line, where, message) IN
         /\ lox' = r.lox
         /\ diag' = diag \o r.out
    /\ UNCHANGED <<argc, file, stdin, pc, input, scanner, scanPc, lastChar,
                   fail, status, exitCode, printed, scannersMade>>

DiagInit == Init /\ Len(file) <= MaxDiagSrc

DiagNext == Next \/ CallError \/ CallReport

SpecDiag == DiagInit /\ [][DiagNext]_vars

\* ------------------------------------------------------------- properties
\* The scan pass of the latest scanner is over: scan_tokens returned, or the
\* process panicked inside it.
ScanReturned == scannersMade > 0 /\ scanPc \in {"returned", "idle"} /\ status # "panicked"
ScanPanicked == status = "panicked" /\ fail \in {"unwrap", "no_arm"}
ScanEnded == ScanReturned \/ ScanPanicked

Kinds(toks) == [i \in 1..Len(toks) |-> toks[i].kind]

EndsInEof(toks) ==
    /\ toks # <<>>
    /\ toks[Len(toks)].kind = "Eof"
    /\ toks[Len(toks)].lexeme = <<>>

CountOf(s, c) == Cardinality({i \in 1..Len(s) : s[i] = c})

\* Characters of the model's alphabet that start no token of the language.
Unexpected == {"@", "e2"}

RECURSIVE LexErrorFrom(_, _)
\* The language's notion of a source with a lexical error: an unexpected
\* character outside a string, or a string still open at the end.
LexErrorFrom(s, inString) ==
    IF s = <<>> THEN inString
    ELSE IF Head(s) = "\"" THEN LexErrorFrom(Tail(s), ~inString)
    ELSE IF ~inString /\ Head(s) \in Unexpected THEN TRUE
    ELSE LexErrorFrom(Tail(s), inString)

LexError(s) == LexErrorFrom(s, FALSE)

FileMode == Cmp1(argc) = "Equal"
InteractiveMode == Cmp1(argc) = "Less"

\* C1: for every source, scan_tokens returns a non-empty sequence whose last
\* element is an Eof token with empty lexeme, and no other element is Eof.
C1_EofTerminated ==
    ScanEnded =>
        /\ ScanReturned
        /\ EndsInEof(scanner.tokens)
        /\ CountOf(Kinds(scanner.tokens), "Eof") = 1

\* C2: a source made of n >= 1 '(' characters scans to n LParen tokens
\* followed by one Eof; in particular "(" scans to [LParen, Eof].
C2_LParens ==
    (/\ ScanEnded
     /\ scanner.source # <<>>
     /\ \A i \in 1..Len(scanner.source) : scanner.source[i] = "(")
    =>
        /\ ScanReturned
        /\ Kinds(scanner.tokens) =
              [i \in 1..(Len(scanner.source) + 1) |->
                  IF i <= Len(scanner.source) THEN "LParen" ELSE "Eof"]

\* C3: in file mode, once the file's source has been scanned the process
\* exits with status 65 if the source had a lexical error and with status 0
\* if it had none.
C3_FileExitStatus ==
    (FileMode /\ scannersMade > 0 /\ status # "running")
    =>
        /\ status = "exited"
        /\ exitCode = (IF LexError(input) THEN ExitDataErr ELSE 0)

C5_SessionSurvives ==
    (InteractiveMode /\ status # "running")
    => (status = "exited" /\ stdin = <<>> /\ input = <<>>)

\* C6: main dispatches on the argument count: none enters interactive mode,
\* one enters file mode, two or more exit with status 64 and no Scanner is
\* ever constructed.
C6_Dispatch ==
    /\ [][(pc = "main" /\ status = "running") =>
            /\ (argc = 0 => pc' = "run_prompt" /\ status' = "running")
            /\ (argc = 1 => pc' = "run_file" /\ status' = "running")
            /\ (argc >= 2 => status' = "exited" /\ exitCode' = ExitUsage)]_vars
    /\ [](argc >= 2 => scannersMade = 0 /\ scanPc = "idle" /\ printed = <<>>)
    /\ [](pc = "run_prompt" => argc = 0)
    /\ [](pc = "run_file" => argc = 1)

C6_Witness ==
    argc >= 2 /\ file # <<>> /\ status = "exited" /\ exitCode = ExitUsage
        /\ scannersMade = 0

\* C7: a character that starts no token is reported (the failed flag is
\* set), contributes no token, and the pass goes on to append Eof: a source
\* made only of such characters scans to [Eof] with the flag set.
C7_UnexpectedCharacter ==
    (/\ ScanEnded
     /\ scanner.source # <<>>
     /\ \A i \in 1..Len(scanner.source) : scanner.source[i] \in Unexpected)
    =>
        /\ ScanReturned
        /\ lox.had_error
        /\ Kinds(scanner.tokens) = <<"Eof">>

\* C8: advance is only executed when a character remains: its lookup never
\* falls outside the source, so the unwrap never fails.
C8_AdvanceInsideSource == fail # "unwrap"

\* C9: a source that leaves a string open at end of input yields no String
\* token, sets the failed flag, and the pass returns a sequence ending in Eof.
C9_UnterminatedString ==
    (/\ ScanEnded
     /\ CountOf(scanner.source, "\"") = 1)
    =>
        /\ ScanReturned
        /\ lox.had_error
        /\ CountOf(Kinds(scanner.tokens), "String") = 0
        /\ EndsInEof(scanner.tokens)

TwoCharKind(c) == IF c = "!" THEN "BangEq" ELSE "EqEq"

\* C10: an operator character immediately followed by '=' is emitted as one
\* two-character token, never as two one-character tokens.
C10_TwoCharOperators ==
    (/\ ScanEnded
     /\ Len(scanner.source) = 2
     /\ scanner.source[1] \in {"!", "="}
     /\ scanner.source[2] = "=")
    =>
        /\ ScanReturned
        /\ Kinds(scanner.tokens) = <<TwoCharKind(scanner.source[1]), "Eof">>

\* C11: an identifier-shaped lexeme that equals a keyword spelling is
\* emitted with the keyword's kind ("or" scans to [Or, Eof]); one that only
\* has the keyword as a prefix is emitted as Ident with the full lexeme
\* ("orr" scans to [Ident "orr", Eof]).
C11_KeywordsReserved ==
    /\ (ScanEnded /\ scanner.source = <<"o", "r">>)
         => (ScanReturned /\ Kinds(scanner.tokens) = <<"Or", "Eof">>)
    /\ (ScanEnded /\ scanner.source = <<"o", "r", "r">>)
         => /\ ScanReturned
            /\ Kinds(scanner.tokens) = <<"Ident", "Eof">>
            /\ scanner.tokens[1].lexeme = scanner.source

\* C12: a call of advance made with current = k, k less than the source
\* length, returns the character at index k and leaves current = k + 1: the
\* latest character returned is the one just before the new current.
C12_AdvanceReturnsCurrent ==
    (scannersMade > 0 /\ scanner.current > 0
       /\ scanner.current <= Len(scanner.source))
    => lastChar = CharsNth(scanner.source, scanner.current - 1)

\* C13: is_at_end counts in characters, the unit advance indexes with: for
\* the scanner's source and every position k from 0 to its number of
\* characters, is_at_end at current = k is true exactly when k is the number
\* of characters.
C13_AtEndInCharacters ==
    scannersMade > 0 =>
        \A k \in 0..Len(scanner.source) :
            is_at_end([scanner EXCEPT !.current = k])
                <=> (k = Len(scanner.source))

\* The characters of s before position k (0-based, exclusive).
Prefix(s, k) == [i \in 1..(IF k < Len(s) THEN k ELSE Len(s)) |-> s[i]]

\* C14: the line counter is 1 plus the number of newlines consumed so far,
\* and the Eof token carries 1 plus the number of newlines of the source.
C14_LineCounter ==
    scannersMade > 0 =>
        /\ scanner.line =
              1 + CountOf(Prefix(scanner.source, scanner.current), "\n")
        /\ (ScanReturned =>
              scanner.tokens[Len(scanner.tokens)].line =
                  1 + CountOf(scanner.source, "\n"))

\* C15: every call of error or report leaves had_error true and prints
\* exactly one diagnostic line with the given line number and message; once
\* set, had_error stays true until the driver's clearing after run, and no
\* step of run or of the scanner clears it.
C15_ErrorSetsFlag ==
    /\ [][diag' # diag =>
            /\ lox'.had_error
            /\ Len(diag') = Len(diag) + 1
            /\ SubSeq(diag', 1, Len(diag)) = diag]_vars
    /\ [](\A line \in LineNos, message \in Messages :
            LET r == error(lox, line, message) IN
            /\ r.lox.had_error
            /\ r.out = <<[line |-> line, where |-> "", message |-> message]>>)
    /\ [][(lox.had_error /\ ~lox'.had_error) =>
            (pc = "run" /\ scanPc = "returned" /\ pc' = "run_prompt")]_vars

C15_Witness ==
    lox.had_error /\ Len(diag) = 1 /\ scanPc = "returned" /\ pc = "run"

C18_PositionsInRange ==
    /\ [](/\ 0 <= scanner.start
          /\ scanner.start <= scanner.current
          /\ scanner.current <= Len(scanner.source))
    /\ [][scanner'.start # scanner.start =>
            (scanPc = "scan_tokens" /\ scanner'.start = scanner.current)]_vars

C18_Witness ==
    /\ Len(scanner.source) = 3
    /\ scanner.start = 2
    /\ scanner.current = 3

\* C19: every iteration of the loop of scan_tokens moves current forward,
\* and the pass always reaches its end, the append of Eof: whenever the
\* process has stopped after a scanner was made, scan_tokens had returned.
C19_PassReachesEof ==
    (scannersMade > 0 /\ status # "running")
    => (scanPc \in {"returned", "idle"} /\ is_at_end(scanner))

====
